---- MODULE Spec2Model ----
(***************************************************************************)
(* Model of the Skyetrain article template scripts:                        *)
(*   src/skyetrain_article_template.js  (A4 script,     script = "a4")     *)
(*   src/unnamed/part_000               (6x9 script,    script = "mobile") *)
(*                                                                         *)
(* A docx option object is a record holding exactly the keys the source    *)
(* passes (an absent key is absent from the record's DOMAIN).  A string    *)
(* is a sequence of chunks, so that the template literal `by ${author}`    *)
(* is a concatenation.  An optional field of a section or of a span is a   *)
(* key that may be missing from the DOMAIN, as in the JavaScript object.   *)
(***************************************************************************)
EXTENDS Integers, Sequences, FiniteSets, TLC

\* ------------------------------------------------------------------ bounds
MaxSections == 2
MaxItems == 2

\* ------------------------------------------------------------------ helpers
Has(o, k) == k \in DOMAIN o

\* JavaScript truthiness of sec.k, whose value is an array when the key is
\* present: every array, also the empty one, is truthy; undefined is falsy.
Truthy(o, k) == Has(o, k)

\* JavaScript truthiness of s.k, whose value is a boolean when the key is
\* present (s.bold ? .. : .., s.bold || false).
Flag(s, k) == Has(s, k) /\ s[k]

RECURSIVE Flatten(_)
Flatten(ss) == IF ss = <<>> THEN <<>> ELSE Head(ss) \o Flatten(Tail(ss))

Scripts == {"a4", "mobile"}
Other(p) == IF p = "a4" THEN "mobile" ELSE "a4"

\* ------------------------------------------------------------------ config
LOGO_PATH == <<"./SKYETRAIN_MERCH_-_SKYETRAIN_LOGO.png">>
OUTPUT_PATH_A4 == <<"./output.docx">>
OUTPUT_PATH_MOBILE == <<"./output_mobile.docx">>
OUTPUT_PATH(p) == IF p = "a4" THEN OUTPUT_PATH_A4 ELSE OUTPUT_PATH_MOBILE

\* ------------------------------------------------------------------ design tokens
PALETTE_A4 ==
  [text |-> "3A3A3A", subtitle |-> "777777", heading |-> "2A2A2A",
   accentBlue |-> "3D4DB7", accentRed |-> "C65D4A"]
PALETTE_MOBILE ==
  [text |-> "3A3A3A", subtitle |-> "777777", heading |-> "2A2A2A",
   accentBlue |-> "3D4DB7", accentRed |-> "C65D4A"]
PALETTE(p) == IF p = "a4" THEN PALETTE_A4 ELSE PALETTE_MOBILE

FONTS_A4 == [body |-> "Georgia", heading |-> "Arial"]
FONTS_MOBILE == [body |-> "Georgia", heading |-> "Arial"]
FONTS(p) == IF p = "a4" THEN FONTS_A4 ELSE FONTS_MOBILE

SIZES_A4 == [body |-> 22, heading |-> 26, title |-> 38, subtitle |-> 20, meta |-> 16]
SIZES_MOBILE == [body |-> 22, heading |-> 26, title |-> 38, subtitle |-> 20, meta |-> 16]
SIZES(p) == IF p = "a4" THEN SIZES_A4 ELSE SIZES_MOBILE

SPACING_A4 ==
  [bodyAfter |-> 180, bodyLine |-> 336, bulletAfter |-> 80,
   sectionBefore |-> 600, sectionAfter |-> 180, titleBlockEnd |-> 480]
\* A plausible slip: the mobile script also tightening the body spacing.
SPACING_MOBILE_Tight ==
  [bodyAfter |-> 160, bodyLine |-> 336, bulletAfter |-> 80,
   sectionBefore |-> 600, sectionAfter |-> 180, titleBlockEnd |-> 400]
SPACING_MOBILE ==
  [bodyAfter |-> 180, bodyLine |-> 336, bulletAfter |-> 80,
   sectionBefore |-> 600, sectionAfter |-> 180, titleBlockEnd |-> 400]
SPACING(p) == IF p = "a4" THEN SPACING_A4 ELSE SPACING_MOBILE

PAGE_MOBILE == [width |-> 8640, height |-> 12960, marginSide |-> 1080, marginTB |-> 1080]

\* ------------------------------------------------------------------ logo geometry
\* LOGO_ASPECT = 466 / 2000, kept as the exact fraction.
LOGO_ASPECT == [num |-> 466, den |-> 2000]
LOGO_DISPLAY_W_A4 == 180
LOGO_DISPLAY_W_MOBILE == 150
LOGO_DISPLAY_W(p) == IF p = "a4" THEN LOGO_DISPLAY_W_A4 ELSE LOGO_DISPLAY_W_MOBILE

\* A plausible slip: truncation (Math.floor / Math.trunc) instead of Math.round.
MathFloor(num, den) == num \div den
\* Math.round of the non-negative rational num/den: floor(x + 1/2).
MathRound(num, den) == (2 * num + den) \div (2 * den)

LOGO_DISPLAY_H(p) == MathRound(LOGO_DISPLAY_W(p) * LOGO_ASPECT.num, LOGO_ASPECT.den)

\* ------------------------------------------------------------------ builders
\* A plausible slip: the font no longer follows the bold flag.
makeRunsBodyFont(p, spans) ==
  [i \in 1..Len(spans) |->
     LET s == spans[i] IN
       [text |-> s.text,
        font |-> FONTS(p).body,
        size |-> SIZES(p).body,
        color |-> PALETTE(p).text,
        bold |-> Flag(s, "bold"),
        italics |-> Flag(s, "italics")]]
makeRuns(p, spans) ==
  [i \in 1..Len(spans) |->
     LET s == spans[i] IN
       [text |-> s.text,
        font |-> IF Flag(s, "bold") THEN FONTS(p).heading ELSE FONTS(p).body,
        size |-> SIZES(p).body,
        color |-> PALETTE(p).text,
        bold |-> Flag(s, "bold"),
        italics |-> Flag(s, "italics")]]

bodyP(p, spans) ==
  [spacing |-> [after |-> SPACING(p).bodyAfter, line |-> SPACING(p).bodyLine],
   widowControl |-> TRUE,
   children |-> makeRuns(p, spans)]

\* A plausible slip: the list reference misspelt.
bulletPWrongRef(p, text) ==
  [numbering |-> [reference |-> "bullets", level |-> 0],
   spacing |-> [after |-> SPACING(p).bulletAfter, line |-> SPACING(p).bodyLine],
   children |-> << [text |-> text, font |-> FONTS(p).body,
                    size |-> SIZES(p).body, color |-> PALETTE(p).text] >>]
bulletP(p, text) ==
  [numbering |-> [reference |-> "mainBullets", level |-> 0],
   spacing |-> [after |-> SPACING(p).bulletAfter, line |-> SPACING(p).bodyLine],
   children |-> << [text |-> text, font |-> FONTS(p).body,
                    size |-> SIZES(p).body, color |-> PALETTE(p).text] >>]

\* A plausible slip: keepNext dropped from the heading.
sectionHeadingNoKeep(p, text) ==
  [spacing |-> [before |-> SPACING(p).sectionBefore, after |-> SPACING(p).sectionAfter],
   keepLines |-> TRUE,
   border |-> [left |-> [style |-> "single", size |-> 14,
                         color |-> PALETTE(p).accentBlue, space |-> 10]],
   indent |-> [left |-> 240],
   children |-> << [text |-> text, font |-> FONTS(p).heading, size |-> SIZES(p).heading,
                    bold |-> TRUE, color |-> PALETTE(p).heading] >>]
sectionHeading(p, text) ==
  [spacing |-> [before |-> SPACING(p).sectionBefore, after |-> SPACING(p).sectionAfter],
   keepNext |-> TRUE,
   keepLines |-> TRUE,
   border |-> [left |-> [style |-> "single", size |-> 14,
                         color |-> PALETTE(p).accentBlue, space |-> 10]],
   indent |-> [left |-> 240],
   children |-> << [text |-> text, font |-> FONTS(p).heading, size |-> SIZES(p).heading,
                    bold |-> TRUE, color |-> PALETTE(p).heading] >>]

spacer(after) == [spacing |-> [after |-> after], children |-> <<>>]

\* A plausible slip: the spacer guarded by a non-empty test (after.length).
buildSectionNonEmpty(p, sec) ==
  LET p0 == << sectionHeading(p, sec.heading) >>
      p1 == IF Truthy(sec, "paragraphs")
            THEN p0 \o [i \in 1..Len(sec.paragraphs) |-> bodyP(p, sec.paragraphs[i])] ELSE p0
      p2 == IF Truthy(sec, "bullets")
            THEN p1 \o [i \in 1..Len(sec.bullets) |-> bulletP(p, sec.bullets[i])] ELSE p1
      p3 == IF Truthy(sec, "after") /\ sec.after # <<>>
            THEN p2 \o << spacer(60) >> \o [i \in 1..Len(sec.after) |-> bodyP(p, sec.after[i])] ELSE p2
      p4 == IF Truthy(sec, "bullets2")
            THEN p3 \o [i \in 1..Len(sec.bullets2) |-> bulletP(p, sec.bullets2[i])] ELSE p3
      p5 == IF Truthy(sec, "after2") /\ sec.after2 # <<>>
            THEN p4 \o << spacer(60) >> \o [i \in 1..Len(sec.after2) |-> bodyP(p, sec.after2[i])] ELSE p4
  IN  p5
\* A plausible slip: the after paragraphs pushed before the bullets.
buildSectionAfterFirst(p, sec) ==
  LET p0 == << sectionHeading(p, sec.heading) >>
      p1 == IF Truthy(sec, "paragraphs")
            THEN p0 \o [i \in 1..Len(sec.paragraphs) |-> bodyP(p, sec.paragraphs[i])] ELSE p0
      p2 == IF Truthy(sec, "after")
            THEN p1 \o << spacer(60) >> \o [i \in 1..Len(sec.after) |-> bodyP(p, sec.after[i])] ELSE p1
      p3 == IF Truthy(sec, "bullets")
            THEN p2 \o [i \in 1..Len(sec.bullets) |-> bulletP(p, sec.bullets[i])] ELSE p2
      p4 == IF Truthy(sec, "bullets2")
            THEN p3 \o [i \in 1..Len(sec.bullets2) |-> bulletP(p, sec.bullets2[i])] ELSE p3
      p5 == IF Truthy(sec, "after2")
            THEN p4 \o << spacer(60) >> \o [i \in 1..Len(sec.after2) |-> bodyP(p, sec.after2[i])] ELSE p4
  IN  p5
buildSection(p, sec) ==
  LET p0 == << sectionHeading(p, sec.heading) >>
      p1 == IF Truthy(sec, "paragraphs")
            THEN p0 \o [i \in 1..Len(sec.paragraphs) |-> bodyP(p, sec.paragraphs[i])] ELSE p0
      p2 == IF Truthy(sec, "bullets")
            THEN p1 \o [i \in 1..Len(sec.bullets) |-> bulletP(p, sec.bullets[i])] ELSE p1
      p3 == IF Truthy(sec, "after")
            THEN p2 \o << spacer(60) >> \o [i \in 1..Len(sec.after) |-> bodyP(p, sec.after[i])] ELSE p2
      p4 == IF Truthy(sec, "bullets2")
            THEN p3 \o [i \in 1..Len(sec.bullets2) |-> bulletP(p, sec.bullets2[i])] ELSE p3
      p5 == IF Truthy(sec, "after2")
            THEN p4 \o << spacer(60) >> \o [i \in 1..Len(sec.after2) |-> bodyP(p, sec.after2[i])] ELSE p4
  IN  p5

\* ------------------------------------------------------------------ title block
LogoImageRun(p, data) ==
  [data |-> data,
   transformation |-> [width |-> LOGO_DISPLAY_W(p), height |-> LOGO_DISPLAY_H(p)],
   type |-> "png"]

TitleBlock_A4(c, data) ==
  << [alignment |-> "center",
      spacing |-> [before |-> 200, after |-> 360],
      children |-> << LogoImageRun("a4", data) >>],
     [spacing |-> [before |-> 60, after |-> 240],
      alignment |-> "center",
      children |-> << [text |-> c.title, font |-> FONTS_A4.heading, size |-> SIZES_A4.title,
                       bold |-> TRUE, color |-> PALETTE_A4.heading,
                       characterSpacing |-> 80] >>],
     [spacing |-> [after |-> 160],
      alignment |-> "center",
      children |-> << [text |-> c.subtitle, font |-> FONTS_A4.body,
                       size |-> SIZES_A4.subtitle, italics |-> TRUE,
                       color |-> PALETTE_A4.subtitle] >>],
     [spacing |-> [after |-> 100],
      border |-> [bottom |-> [style |-> "single", size |-> 6,
                              color |-> PALETTE_A4.accentRed, space |-> 1]],
      children |-> <<>>],
     [spacing |-> [after |-> SPACING_A4.titleBlockEnd],
      alignment |-> "right",
      children |-> << [text |-> <<"by ">> \o c.author, font |-> FONTS_A4.body,
                       size |-> SIZES_A4.subtitle, color |-> PALETTE_A4.subtitle] >>] >>

TitleBlock_MOBILE(c, data) ==
  << [alignment |-> "center",
      spacing |-> [before |-> 120, after |-> 300],
      children |-> << LogoImageRun("mobile", data) >>],
     [spacing |-> [before |-> 60, after |-> 200],
      alignment |-> "center",
      children |-> << [text |-> c.title, font |-> FONTS_MOBILE.heading,
                       size |-> SIZES_MOBILE.title,
                       bold |-> TRUE, color |-> PALETTE_MOBILE.heading,
                       characterSpacing |-> 80] >>],
     [spacing |-> [after |-> 140],
      alignment |-> "center",
      children |-> << [text |-> c.subtitle, font |-> FONTS_MOBILE.body,
                       size |-> SIZES_MOBILE.subtitle, italics |-> TRUE,
                       color |-> PALETTE_MOBILE.subtitle] >>],
     [spacing |-> [after |-> 80],
      border |-> [bottom |-> [style |-> "single", size |-> 6,
                              color |-> PALETTE_MOBILE.accentRed, space |-> 1]],
      children |-> <<>>],
     [spacing |-> [after |-> SPACING_MOBILE.titleBlockEnd],
      alignment |-> "right",
      children |-> << [text |-> <<"by ">> \o c.author, font |-> FONTS_MOBILE.body,
                       size |-> SIZES_MOBILE.subtitle,
                       color |-> PALETTE_MOBILE.subtitle] >>] >>

TitleBlock(p, c, data) == IF p = "a4" THEN TitleBlock_A4(c, data) ELSE TitleBlock_MOBILE(c, data)

\* ------------------------------------------------------------------ document
NumberingConfig ==
  [config |-> << [reference |-> "mainBullets",
                  levels |-> << [level |-> 0,
                                 format |-> "bullet",
                                 text |-> "u2022",
                                 alignment |-> "left",
                                 style |-> [paragraph |->
                                              [indent |-> [left |-> 720,
                                                           hanging |-> 360]]]] >>] >>]

PageProps_A4 ==
  [size |-> [width |-> 11906, height |-> 16838],
   margin |-> [top |-> 1440, right |-> 1600, bottom |-> 1440, left |-> 1600]]
PageProps_MOBILE ==
  [size |-> [width |-> PAGE_MOBILE.width, height |-> PAGE_MOBILE.height],
   margin |-> [top |-> PAGE_MOBILE.marginTB, right |-> PAGE_MOBILE.marginSide,
               bottom |-> PAGE_MOBILE.marginTB, left |-> PAGE_MOBILE.marginSide]]
PageProps(p) == IF p = "a4" THEN PageProps_A4 ELSE PageProps_MOBILE

HeaderParagraph(p) ==
  [alignment |-> "right",
   spacing |-> [after |-> 80],
   border |-> [bottom |-> [style |-> "single", size |-> 6,
                           color |-> PALETTE(p).accentBlue, space |-> 6]],
   children |-> << [text |-> <<"SKYETRAIN">>, font |-> FONTS(p).heading,
                    size |-> SIZES(p).meta, color |-> "CCCCCC",
                    characterSpacing |-> 60] >>]

FooterParagraph(p) ==
  [alignment |-> "center",
   border |-> [top |-> [style |-> "single", size |-> 6,
                        color |-> PALETTE(p).accentBlue, space |-> 6]],
   children |-> << [text |-> <<"skyetrain.com">>, font |-> FONTS(p).body,
                    size |-> SIZES(p).meta, italics |-> TRUE, color |-> "CCCCCC"] >>]

Document(p, blocks) ==
  [numbering |-> NumberingConfig,
   styles |-> [default |-> [document |-> [run |-> [font |-> FONTS(p).body,
                                                   size |-> SIZES(p).body]]]],
   sections |-> << [properties |-> [page |-> PageProps(p)],
                    headers |-> [default |-> [children |-> << HeaderParagraph(p) >>]],
                    footers |-> [default |-> [children |-> << FooterParagraph(p) >>]],
                    children |-> blocks] >>]

\* The tree script p builds from content c: the title block, the blocks of
\* every section in order, wrapped in the Document.
Render(p, c, data) ==
  Document(p, TitleBlock(p, c, data)
                \o Flatten([k \in 1..Len(c.sections) |-> buildSection(p, c.sections[k])]))

\* Packer.toBuffer: the external serializer, a black box that wraps the tree
\* it was given into a binary.
Serialize(d) == [docx |-> d]

\* ------------------------------------------------------------------ inputs
Digits == <<"1", "2", "3", "4", "5", "6", "7", "8", "9">>

\* The span shapes the content comment documents: { text }, and text with
\* bold and/or italics given.
SpanKind(n, text) ==
  CASE n = 1 -> [text |-> text]
    [] n = 2 -> [text |-> text, bold |-> TRUE]
    [] n = 3 -> [text |-> text, italics |-> TRUE]
    [] n = 4 -> [text |-> text, bold |-> FALSE, italics |-> TRUE]
    [] OTHER -> [text |-> text, bold |-> TRUE, italics |-> TRUE]

FieldOffset(k) == CASE k = "paragraphs" -> 3 [] k = "after" -> 0 [] OTHER -> 2

\* The j-th paragraph of list k: one or two spans, its text naming its place.
Para(k, j) ==
  [i \in 1..(1 + (j % 2)) |->
     SpanKind(((j + i + FieldOffset(k)) % 5) + 1, <<k, Digits[j], Digits[i]>>)]

ListFields == {"paragraphs", "bullets", "after", "bullets2", "after2"}

\* A section from the lengths of its lists; -1 stands for an absent key.
Shapes == [ListFields -> -1..MaxItems]
Section(idx, l) ==
  [k \in {"heading"} \cup {f \in ListFields : l[f] >= 0} |->
     CASE k = "heading" -> <<"Section ", Digits[idx]>>
       [] k \in {"bullets", "bullets2"} -> [j \in 1..l[k] |-> <<k, Digits[j]>>]
       [] OTHER -> [j \in 1..l[k] |-> Para(k, j)]]

Shape(np, nb, na, nb2, na2) ==
  [k \in ListFields |->
     CASE k = "paragraphs" -> np [] k = "bullets" -> nb [] k = "after" -> na
       [] k = "bullets2" -> nb2 [] OTHER -> na2]

\* The section shapes multi-section contents are drawn from.
ShapePool ==
  { Shape(-1, -1, -1, -1, -1),
    Shape(MaxItems, -1, -1, -1, -1),
    Shape(1, MaxItems, -1, -1, -1),
    Shape(-1, MaxItems, MaxItems, -1, -1),
    Shape(-1, -1, 0, -1, 1),
    Shape(MaxItems, MaxItems, MaxItems, MaxItems, MaxItems) }

\* content.title / subtitle / author: the values of the source, and another.
Metas ==
  { [title |-> <<"ARTICLE TITLE HERE">>,
     subtitle |-> <<"One-line description of the article">>,
     author |-> <<"Skye Boyland">>],
    [title |-> <<"T">>, subtitle |-> <<>>, author |-> <<"A. N. Other">>] }

MkContent(m, shapes) ==
  [title |-> m.title, subtitle |-> m.subtitle, author |-> m.author,
   sections |-> [i \in 1..Len(shapes) |-> Section(i, shapes[i])]]

ShapeSeqs == UNION { [1..n -> ShapePool] : n \in 0..MaxSections }

\* ------------------------------------------------------------------ state
VARIABLES
  script,      \* which of the two scripts runs
  logoExists,  \* whether the file at LOGO_PATH can be read
  content,     \* the content object
  pc,          \* position of the run
  logoData,    \* <<>> or <<bytes>>
  children,    \* the block list
  parts,       \* the value the last buildSection call returned
  secIdx,      \* sections consumed by the forEach
  doc,         \* <<>> or <<the Document>>
  promise,     \* state of the Packer.toBuffer promise
  packed,      \* <<>> or <<the tree handed to the serializer>>
  buffer,      \* <<>> or <<the resolved buffer>>
  writes,      \* the fs.writeFileSync calls made, in order
  stdout       \* the lines printed, in order

vars == <<script, logoExists, content, pc, logoData, children, parts, secIdx,
          doc, promise, packed, buffer, writes, stdout>>

InitRun ==
  /\ script \in Scripts
  /\ logoExists \in BOOLEAN
  /\ pc = "start"
  /\ logoData = <<>>
  /\ children = <<>>
  /\ parts = <<>>
  /\ secIdx = 0
  /\ doc = <<>>
  /\ promise = "none"
  /\ packed = <<>>
  /\ buffer = <<>>
  /\ writes = <<>>
  /\ stdout = <<>>

Init ==
  /\ InitRun
  /\ \E m \in Metas, ss \in ShapeSeqs : content = MkContent(m, ss)

\* One section, of every shape within the bounds.
InitSection ==
  /\ InitRun
  /\ \E m \in Metas, l \in Shapes : content = MkContent(m, <<l>>)

\* ------------------------------------------------------------------ actions
\* What fs.readFileSync returns for the logo file.
LogoBytes == "png"

\* A plausible slip: the read wrapped in a try/catch that carries on.
ReadLogoSwallow ==
  /\ pc = "start"
  /\ logoData' = IF logoExists THEN <<LogoBytes>> ELSE <<"undefined">>
  /\ pc' = "title"
  /\ UNCHANGED <<script, logoExists, content, children, parts, secIdx, doc,
                 promise, packed, buffer, writes, stdout>>
\* const logoData = fs.readFileSync(LOGO_PATH): returns the bytes, or throws
\* and the uncaught exception ends the process.
ReadLogo ==
  /\ pc = "start"
  /\ \/ /\ logoExists
        /\ logoData' = <<LogoBytes>>
        /\ pc' = "title"
     \/ /\ ~logoExists
        /\ logoData' = <<>>
        /\ pc' = "crashed"
  /\ UNCHANGED <<script, logoExists, content, children, parts, secIdx, doc,
                 promise, packed, buffer, writes, stdout>>

\* const children = [ ...title block... ]
BuildTitleBlock ==
  /\ pc = "title"
  /\ children' = TitleBlock(script, content, logoData[1])
  /\ pc' = "sections"
  /\ UNCHANGED <<script, logoExists, content, logoData, parts, secIdx, doc,
                 promise, packed, buffer, writes, stdout>>

\* A plausible slip: unshift instead of push.
PushSectionFront ==
  /\ pc = "sections"
  /\ secIdx < Len(content.sections)
  /\ parts' = buildSection(script, content.sections[secIdx + 1])
  /\ children' = parts' \o children
  /\ secIdx' = secIdx + 1
  /\ UNCHANGED <<script, logoExists, content, pc, logoData, doc,
                 promise, packed, buffer, writes, stdout>>
\* One iteration of content.sections.forEach(sec => children.push(...buildSection(sec)))
PushSection ==
  /\ pc = "sections"
  /\ secIdx < Len(content.sections)
  /\ parts' = buildSection(script, content.sections[secIdx + 1])
  /\ children' = children \o parts'
  /\ secIdx' = secIdx + 1
  /\ UNCHANGED <<script, logoExists, content, pc, logoData, doc,
                 promise, packed, buffer, writes, stdout>>

\* const doc = new Document({...}), once the forEach has ended
NewDocument ==
  /\ pc = "sections"
  /\ secIdx = Len(content.sections)
  /\ doc' = << Document(script, children) >>
  /\ pc' = "pack"
  /\ UNCHANGED <<script, logoExists, content, logoData, children, parts, secIdx,
                 promise, packed, buffer, writes, stdout>>

\* Packer.toBuffer(doc).then(...): the call returns a pending promise and the
\* script's synchronous part ends.
PackerToBuffer ==
  /\ pc = "pack"
  /\ packed' = doc
  /\ promise' = "pending"
  /\ pc' = "await"
  /\ UNCHANGED <<script, logoExists, content, logoData, children, parts, secIdx,
                 doc, buffer, writes, stdout>>

\* The serializer resolves the promise with the buffer.
PromiseFulfil ==
  /\ promise = "pending"
  /\ promise' = "fulfilled"
  /\ buffer' = << Serialize(packed[1]) >>
  /\ pc' = "then"
  /\ UNCHANGED <<script, logoExists, content, logoData, children, parts, secIdx,
                 doc, packed, writes, stdout>>

\* The serializer rejects: .then was given no rejection handler, so the
\* rejection is unhandled and the callback never runs.
PromiseReject ==
  /\ promise = "pending"
  /\ promise' = "rejected"
  /\ pc' = "crashed"
  /\ UNCHANGED <<script, logoExists, content, logoData, children, parts, secIdx,
                 doc, packed, buffer, writes, stdout>>

\* A plausible slip: the two statements of the callback swapped.
WriteOutputAfterLog ==
  /\ pc = "then"
  /\ stdout' = Append(stdout, <<"Created: ">> \o OUTPUT_PATH(script))
  /\ pc' = "log"
  /\ UNCHANGED <<script, logoExists, content, logoData, children, parts, secIdx,
                 doc, promise, packed, buffer, writes>>
\* The callback's first statement: fs.writeFileSync(OUTPUT_PATH, buffer)
WriteOutput ==
  /\ pc = "then"
  /\ writes' = Append(writes, [path |-> OUTPUT_PATH(script), data |-> buffer[1]])
  /\ pc' = "log"
  /\ UNCHANGED <<script, logoExists, content, logoData, children, parts, secIdx,
                 doc, promise, packed, buffer, stdout>>

\* The callback's second statement: console.log(`Created: ${OUTPUT_PATH}`)
LogCreated ==
  /\ pc = "log"
  /\ stdout' = Append(stdout, <<"Created: ">> \o OUTPUT_PATH(script))
  /\ pc' = "done"
  /\ UNCHANGED <<script, logoExists, content, logoData, children, parts, secIdx,
                 doc, promise, packed, buffer, writes>>

Next ==
  \/ ReadLogo
  \/ BuildTitleBlock
  \/ PushSection
  \/ NewDocument
  \/ PackerToBuffer
  \/ PromiseFulfil
  \/ PromiseReject
  \/ WriteOutput
  \/ LogCreated

Spec == Init /\ [][Next]_vars

SectionSpec == InitSection /\ [][Next]_vars

\* The event loop runs a settled promise's callback, and the callback runs to
\* its end.
LiveSpec == Spec /\ WF_vars(WriteOutput) /\ WF_vars(LogCreated)


\* ------------------------------------------------------------------ vocabulary of the properties
\* The kind of a block, read off the option keys it carries.
Kind(b) ==
  IF Has(b, "numbering") THEN "bullet"
  ELSE IF Has(b, "widowControl") THEN "body"
  ELSE IF Has(b, "border") THEN (IF Has(b.border, "left") THEN "heading" ELSE "rule")
  ELSE IF b.children = <<>> THEN "spacer"
  ELSE IF Has(b.children[1], "transformation") THEN "logo"
  ELSE IF b.alignment = "right" THEN "author"
  ELSE IF Has(b.children[1], "italics") THEN "subtitle"
  ELSE "title"

Kinds(blocks) == [i \in 1..Len(blocks) |-> Kind(blocks[i])]
Texts(b) == [i \in 1..Len(b.children) |-> b.children[i].text]
BlockTexts(blocks) == [i \in 1..Len(blocks) |-> Texts(blocks[i])]
SpanTexts(spans) == [i \in 1..Len(spans) |-> spans[i].text]
ParaTexts(ps) == [i \in 1..Len(ps) |-> SpanTexts(ps[i])]
Singletons(xs) == [i \in 1..Len(xs) |-> <<xs[i]>>]
Rep(x, n) == [i \in 1..n |-> x]
Count(sec, k) == IF Has(sec, k) THEN Len(sec[k]) ELSE 0
Positions(blocks, kind) == {i \in 1..Len(blocks) : Kind(blocks[i]) = kind}

\* The block count of a section, as the claim C10 states it.
BlockCount(sec) ==
  1 + Count(sec, "paragraphs") + Count(sec, "bullets") + Count(sec, "bullets2")
    + (IF Has(sec, "after") THEN 1 + Len(sec.after) ELSE 0)
    + (IF Has(sec, "after2") THEN 1 + Len(sec.after2) ELSE 0)

RECURSIVE SumCounts(_, _)
SumCounts(secs, n) == IF n = 0 THEN 0 ELSE BlockCount(secs[n]) + SumCounts(secs, n - 1)

\* Where the k-th section's blocks start in the block list.
SectionStart(k) == 6 + SumCounts(content.sections, k - 1)

TitleKinds == <<"logo", "title", "subtitle", "rule", "author">>

\* ------------------------------------------------------------------ C1
\* C1: the block list is logo, title, subtitle, accent-red rule, author, each
\* exactly once and in that order, followed by the sections' blocks in declared
\* order; it holds exactly one heading block per consumed section, the k-th one
\* being the first block of the k-th section and carrying its heading text; with
\* no section the list is exactly the five title-block elements.
C1_BlockOrder ==
  children # <<>> =>
    /\ Len(children) = 5 + SumCounts(content.sections, secIdx)
    /\ SubSeq(Kinds(children), 1, 5) = TitleKinds
    /\ \A kd \in {"logo", "title", "subtitle", "rule", "author"} :
         Cardinality(Positions(children, kd)) = 1
    /\ children[2].children[1].text = content.title
    /\ children[3].children[1].text = content.subtitle
    /\ children[4].border.bottom.color = PALETTE(script).accentRed
    /\ children[5].children[1].text = <<"by ">> \o content.author
    /\ Positions(children, "heading") = {SectionStart(k) : k \in 1..secIdx}
    /\ Cardinality(Positions(children, "heading")) = secIdx
    /\ \A k \in 1..secIdx :
         /\ Texts(children[SectionStart(k)]) = << content.sections[k].heading >>
         /\ SubSeq(children, SectionStart(k), SectionStart(k + 1) - 1)
              = buildSection(script, content.sections[k])
    /\ (doc # <<>> /\ content.sections = <<>>) =>
         /\ Len(doc[1].sections[1].children) = 5
         /\ Kinds(doc[1].sections[1].children) = TitleKinds
    /\ doc # <<>> => (doc[1].sections[1].children = children
                      /\ secIdx = Len(content.sections))

C1_Witness ==
  /\ doc # <<>>
  /\ Len(content.sections) = 2
  /\ Len(children) > 5 + BlockCount(content.sections[1])
  /\ BlockCount(content.sections[1]) > 1

C1_WitnessEmpty == doc # <<>> /\ content.sections = <<>>

\* ------------------------------------------------------------------ C2
ExpectedKinds(sec) ==
  <<"heading">>
    \o Rep("body", Count(sec, "paragraphs"))
    \o Rep("bullet", Count(sec, "bullets"))
    \o (IF Has(sec, "after") THEN <<"spacer">> \o Rep("body", Len(sec.after)) ELSE <<>>)
    \o Rep("bullet", Count(sec, "bullets2"))
    \o (IF Has(sec, "after2") THEN <<"spacer">> \o Rep("body", Len(sec.after2)) ELSE <<>>)

OrEmpty(sec, k) == IF Has(sec, k) THEN sec[k] ELSE <<>>

ExpectedTexts(sec) ==
  << <<sec.heading>> >>
    \o ParaTexts(OrEmpty(sec, "paragraphs"))
    \o Singletons(OrEmpty(sec, "bullets"))
    \o (IF Has(sec, "after") THEN << <<>> >> \o ParaTexts(sec.after) ELSE <<>>)
    \o Singletons(OrEmpty(sec, "bullets2"))
    \o (IF Has(sec, "after2") THEN << <<>> >> \o ParaTexts(sec.after2) ELSE <<>>)

\* C2: buildSection returns heading, one body paragraph per entry of paragraphs,
\* one bullet item per entry of bullets, spacer and one body paragraph per entry
\* of after, one bullet item per entry of bullets2, spacer and one body paragraph
\* per entry of after2, every group in the declared order of its entries; with
\* bullets and no after there is no spacer and no after block, with bullets and
\* after exactly one spacer stands between the bullets and the after paragraphs.
C2_SectionSequence ==
  secIdx >= 1 =>
    LET sec == content.sections[secIdx] IN
      /\ Kinds(parts) = ExpectedKinds(sec)
      /\ BlockTexts(parts) = ExpectedTexts(sec)
      /\ (Has(sec, "bullets") /\ ~Has(sec, "after") /\ ~Has(sec, "after2")) =>
            /\ Positions(parts, "spacer") = {}
            /\ Cardinality(Positions(parts, "bullet"))
                 = Len(sec.bullets) + Count(sec, "bullets2")
            /\ Len(parts) = 1 + Count(sec, "paragraphs") + Len(sec.bullets)
                              + Count(sec, "bullets2")
      /\ (Has(sec, "bullets") /\ Has(sec, "after") /\ ~Has(sec, "after2")) =>
            LET at == 1 + Count(sec, "paragraphs") + Len(sec.bullets) + 1 IN
              /\ Positions(parts, "spacer") = {at}
              /\ \A j \in 1..Len(sec.bullets) : Kind(parts[at - j]) = "bullet"
              /\ \A j \in 1..Len(sec.after) : Kind(parts[at + j]) = "body"

C2_Witness ==
  /\ secIdx = 1
  /\ \A k \in ListFields : Has(content.sections[1], k) /\ Len(content.sections[1][k]) = 2
  /\ Len(parts) = 13

C2_WitnessBulletsOnly ==
  /\ secIdx = 1
  /\ DOMAIN content.sections[1] = {"heading", "bullets"}
  /\ Len(content.sections[1].bullets) = 2
  /\ Kinds(parts) = <<"heading", "bullet", "bullet">>

\* ------------------------------------------------------------------ C10
\* C10: buildSection emits one spacer for each of after and after2 that is
\* present, also when that list is empty and also when no bullet list precedes
\* it, and no spacer otherwise; the block count of a section is
\* 1 + |paragraphs| + |bullets| + |bullets2| + (1 + |after| if after is present)
\* + (1 + |after2| if after2 is present), an absent list counting as 0.
C10_SpacerPerAfter ==
  secIdx >= 1 =>
    LET sec == content.sections[secIdx]
        sp == Positions(parts, "spacer")
        at1 == 1 + Count(sec, "paragraphs") + Count(sec, "bullets") + 1
        at2 == BlockCount(sec) - Count(sec, "after2")
    IN
      /\ Len(parts) = BlockCount(sec)
      /\ Cardinality(sp) = (IF Has(sec, "after") THEN 1 ELSE 0)
                             + (IF Has(sec, "after2") THEN 1 ELSE 0)
      /\ sp = (IF Has(sec, "after") THEN {at1} ELSE {})
                 \cup (IF Has(sec, "after2") THEN {at2} ELSE {})
      /\ \A i \in sp : parts[i] = spacer(60)

C10_Witness ==
  /\ secIdx = 1
  /\ DOMAIN content.sections[1] = {"heading", "after"}
  /\ content.sections[1].after = <<>>
  /\ Kinds(parts) = <<"heading", "spacer">>


\* ------------------------------------------------------------------ C3
IsBold(r) == Has(r, "bold") /\ r.bold

\* The text runs of a block list (an image run holds no text).
RunsOf(blocks) ==
  { r \in UNION { { blocks[i].children[j] : j \in 1..Len(blocks[i].children) } :
                  i \in 1..Len(blocks) } : Has(r, "text") }

HeaderRuns(d) == RunsOf(d.sections[1].headers.default.children)
FooterRuns(d) == RunsOf(d.sections[1].footers.default.children)
BodyRuns(d) == RunsOf(d.sections[1].children)

FontFollowsBold(r) ==
  /\ r.font \in {FONTS(script).heading, FONTS(script).body}
  /\ r.font = FONTS(script).heading <=> IsBold(r)
  /\ ~IsBold(r) => r.font = FONTS(script).body

\* C3 as stated: every text run of the document, the header and footer label
\* runs included, has the heading font exactly when its bold flag is true.
C3_AllRunsFontIffBold ==
  doc # <<>> =>
    \A r \in BodyRuns(doc[1]) \cup HeaderRuns(doc[1]) \cup FooterRuns(doc[1]) :
      FontFollowsBold(r)

\* C3 amended: every text run of the block list (title, subtitle, author,
\* section headings, body spans, bullet text) and the footer label run has the
\* heading font exactly when its bold flag is true, and the body font
\* otherwise; the header label run "SKYETRAIN" has the heading font and carries
\* no bold flag.
C3_FontIffBoldExceptHeader ==
  /\ \A r \in RunsOf(children) : FontFollowsBold(r)
  /\ FONTS(script).heading # FONTS(script).body
  /\ doc # <<>> =>
       /\ \A r \in BodyRuns(doc[1]) \cup FooterRuns(doc[1]) : FontFollowsBold(r)
       /\ Cardinality(HeaderRuns(doc[1])) = 1
       /\ Cardinality(FooterRuns(doc[1])) = 1
       /\ \A r \in HeaderRuns(doc[1]) :
            /\ r.text = <<"SKYETRAIN">>
            /\ r.font = FONTS(script).heading
            /\ ~Has(r, "bold")

C3_Witness ==
  /\ doc # <<>>
  /\ \E i \in 6..Len(children) :
       /\ Kind(children[i]) = "body"
       /\ \E j \in 1..Len(children[i].children) :
            /\ children[i].children[j].bold
            /\ children[i].children[j].font = "Arial"
  /\ \E i \in 6..Len(children) :
       /\ Kind(children[i]) = "body"
       /\ \E j \in 1..Len(children[i].children) :
            /\ ~children[i].children[j].bold
            /\ children[i].children[j].font = "Georgia"

\* ------------------------------------------------------------------ C4
\* A block without its spacing; the logo run without its display size.
NoSpacing(b) == [k \in DOMAIN b \ {"spacing"} |-> b[k]]
NoLogoSize(b) ==
  [b EXCEPT !.children = [j \in 1..Len(b.children) |->
     IF Has(b.children[j], "transformation")
     THEN [k \in DOMAIN b.children[j] \ {"transformation"} |-> b.children[j][k]]
     ELSE b.children[j]]]

\* A document without its page size, its margins and its logo display size.
NoGeometry(d) ==
  [d EXCEPT !.sections[1].properties.page = <<>>,
            !.sections[1].children = [i \in 1..Len(@) |-> NoLogoSize(@[i])]]

\* ... and without the paragraph spacing of the five title-block paragraphs.
NoGeometryNoTitleSpacing(d) ==
  [NoGeometry(d) EXCEPT !.sections[1].children =
     [i \in 1..Len(@) |-> IF i <= 5 THEN NoSpacing(@[i]) ELSE @[i]]]

\* C4 as stated: the documents the two scripts build from the same content
\* differ only in page width/height, page margins and logo display size.
C4_OnlyGeometryDiffers ==
  doc # <<>> =>
    NoGeometry(doc[1]) = NoGeometry(Render(Other(script), content, logoData[1]))

\* C4 amended: the documents the two scripts build from the same content differ
\* only in page width/height, page margins, logo display width (and the height
\* derived from it) and the before/after spacing of the five title-block
\* paragraphs (logo, title, subtitle, rule, author); palette, fonts and sizes
\* are identical, and every section block, the header, the footer, the
\* numbering and the default style are equal.
C4_GeometryAndTitleSpacingDiffer ==
  /\ PALETTE("a4") = PALETTE("mobile")
  /\ FONTS("a4") = FONTS("mobile")
  /\ SIZES("a4") = SIZES("mobile")
  /\ doc # <<>> =>
       LET mine == doc[1]
           theirs == Render(Other(script), content, logoData[1])
       IN  /\ NoGeometryNoTitleSpacing(mine) = NoGeometryNoTitleSpacing(theirs)
           /\ Len(mine.sections[1].children) = Len(theirs.sections[1].children)
           /\ \A i \in 6..Len(mine.sections[1].children) :
                mine.sections[1].children[i] = theirs.sections[1].children[i]
           /\ \A i \in 1..5 :
                DOMAIN mine.sections[1].children[i].spacing
                  = DOMAIN theirs.sections[1].children[i].spacing

C4_Witness ==
  /\ doc # <<>>
  /\ script = "mobile"
  /\ Len(children) > 5
  /\ Positions(children, "body") # {}
  /\ doc[1].sections[1].children[5].spacing.after = 400
  /\ Render("a4", content, logoData[1]).sections[1].children[5].spacing.after = 480

\* ------------------------------------------------------------------ C5
\* C5: in both scripts the logo display height is the display width times
\* 466/2000 rounded half up, 42 for width 180 and 35 for width 150, and the
\* logo image run carries exactly that width and height.
C5_LogoHeight ==
  /\ LOGO_DISPLAY_H("a4") = 42
  /\ LOGO_DISPLAY_H("mobile") = 35
  /\ children # <<>> =>
       LET t == children[1].children[1].transformation
           w == IF script = "a4" THEN 180 ELSE 150
       IN  /\ Kind(children[1]) = "logo"
           /\ t = [width |-> w, height |-> IF script = "a4" THEN 42 ELSE 35]
           /\ 2 * 2000 * t.height <= 2 * 466 * t.width + 2000
           /\ 2 * 466 * t.width + 2000 < 2 * 2000 * (t.height + 1)
           /\ doc # <<>> => doc[1].sections[1].children[1].children[1].transformation = t

C5_Witness ==
  /\ doc # <<>>
  /\ script = "mobile"
  /\ doc[1].sections[1].children[1].children[1].transformation.height = 35


\* ------------------------------------------------------------------ C6
NothingProduced ==
  /\ children = <<>>
  /\ parts = <<>>
  /\ doc = <<>>
  /\ promise = "none"
  /\ packed = <<>>
  /\ buffer = <<>>
  /\ writes = <<>>
  /\ stdout = <<>>

\* C6: the logo read precedes the construction of the first block, and when the
\* read fails the run aborts: no block list, no document, no serializer call, no
\* output file write and no confirmation line ever occurs.
C6_LogoFailureAborts ==
  /\ ~logoExists => (NothingProduced /\ logoData = <<>> /\ pc \in {"start", "crashed"})
  /\ pc = "start" => NothingProduced
  /\ ~NothingProduced => (logoExists /\ logoData = <<LogoBytes>>)

C6_Witness == ~logoExists /\ pc = "crashed" /\ NothingProduced

\* ------------------------------------------------------------------ C7
\* The tree of the whole content, as the script builds it from a loaded logo.
CompleteTree == Render(script, content, LogoBytes)

C7_Safety ==
  /\ Len(writes) <= 1
  /\ Len(stdout) <= 1
  /\ stdout # <<>> => Len(writes) = 1
  /\ writes # <<>> =>
       /\ promise = "fulfilled"
       /\ writes[1] = [path |-> OUTPUT_PATH(script), data |-> Serialize(CompleteTree)]
       /\ Len(CompleteTree.sections[1].children)
            = 5 + SumCounts(content.sections, Len(content.sections))
  /\ promise = "rejected" => (writes = <<>> /\ stdout = <<>> /\ pc = "crashed")
  /\ pc = "done" =>
       /\ logoExists
       /\ promise = "fulfilled"
       /\ Len(writes) = 1
       /\ stdout = << <<"Created: ">> \o OUTPUT_PATH(script) >>
  /\ promise \in {"none", "pending"} => (writes = <<>> /\ stdout = <<>>)

C8_HeadingKeepNext ==
  /\ \A k \in 1..secIdx :
       LET h == children[SectionStart(k)] IN
         /\ Kind(h) = "heading"
         /\ Has(h, "keepNext") /\ h.keepNext
         /\ Has(h, "keepLines") /\ h.keepLines
  /\ \A i \in 1..Len(children) :
       i \notin {SectionStart(k) : k \in 1..secIdx} =>
         /\ Kind(children[i]) # "heading"
         /\ ~Has(children[i], "keepNext")
  /\ doc # <<>> => doc[1].sections[1].children = children

C8_Witness ==
  /\ doc # <<>>
  /\ Len(content.sections) = 2
  /\ DOMAIN content.sections[2] = {"heading"}
  /\ Len(children) = SectionStart(2)
  /\ children[Len(children)].keepNext
  /\ Positions(children, "body") # {}
  /\ Positions(children, "bullet") # {}
  /\ Positions(children, "spacer") # {}

\* ------------------------------------------------------------------ C9
\* The bullet strings of the first n sections, in rendering order.
RECURSIVE BulletStrings(_, _)
BulletStrings(secs, n) ==
  IF n = 0 THEN <<>>
  ELSE BulletStrings(secs, n - 1) \o OrEmpty(secs[n], "bullets") \o OrEmpty(secs[n], "bullets2")

\* The blocks that carry a numbering reference, in order.
NumberedBlocks(blocks) == SelectSeq(blocks, LAMBDA b : Has(b, "numbering"))

Resolves(d, nb) ==
  \E i \in 1..Len(d.numbering.config) :
    /\ d.numbering.config[i].reference = nb.reference
    /\ \E j \in 1..Len(d.numbering.config[i].levels) :
         d.numbering.config[i].levels[j].level = nb.level

\* C9: every bullet string of bullets or bullets2 becomes exactly one block
\* whose numbering is level 0 of "mainBullets" and whose single run holds that
\* string; the numbering configuration defines exactly one list reference,
\* "mainBullets", with a level 0 whose bullet character is U+2022; no bullet
\* block refers to an undefined list or level, and no other block carries a
\* numbering reference.
C9_BulletsUseMainBullets ==
  LET nbs == NumberedBlocks(children) IN
    /\ BlockTexts(nbs) = Singletons(BulletStrings(content.sections, secIdx))
    /\ \A i \in 1..Len(nbs) :
         /\ nbs[i].numbering = [reference |-> "mainBullets", level |-> 0]
         /\ Len(nbs[i].children) = 1
    /\ \A i \in 1..Len(children) :
         Has(children[i], "numbering") <=>
           \E k \in 1..secIdx :
             LET sec == content.sections[k]
                 off == i - SectionStart(k) - Count(sec, "paragraphs")
                 off2 == off - Count(sec, "bullets")
                          - (IF Has(sec, "after") THEN 1 + Len(sec.after) ELSE 0)
             IN  off \in 1..Count(sec, "bullets") \/ off2 \in 1..Count(sec, "bullets2")
    /\ doc # <<>> =>
         /\ doc[1].sections[1].children = children
         /\ Len(doc[1].numbering.config) = 1
         /\ doc[1].numbering.config[1].reference = "mainBullets"
         /\ Len(doc[1].numbering.config[1].levels) = 1
         /\ doc[1].numbering.config[1].levels[1].level = 0
         /\ doc[1].numbering.config[1].levels[1].format = "bullet"
         /\ doc[1].numbering.config[1].levels[1].text = "u2022"
         /\ \A i \in 1..Len(nbs) : Resolves(doc[1], nbs[i].numbering)
         /\ ~Has(doc[1].sections[1].headers.default.children[1], "numbering")
         /\ ~Has(doc[1].sections[1].footers.default.children[1], "numbering")

C9_Witness ==
  /\ doc # <<>>
  /\ \E k \in 1..Len(content.sections) :
       /\ Count(content.sections[k], "bullets") = 2
       /\ Count(content.sections[k], "bullets2") = 2
  /\ Len(NumberedBlocks(children)) >= 4

====
